---- MODULE Spec2Model ----
(***************************************************************************)
(* Verification model of the kanjo configuration model (entities.Config    *)
(* and its nested directives) and of the error taxonomy (errors package).  *)
(*                                                                         *)
(* Go values are modelled as follows:                                      *)
(*   string  -> TLA+ string ("" is the blank string)                       *)
(*   slice   -> sequence (<<>> is the nil or empty slice; Config.Validate  *)
(*              only ever takes len() and ranges over them)                *)
(*   struct  -> record with the Go field names                             *)
(*   error   -> the chain of errors reached by repeated Unwrap, outermost  *)
(*              first; the nil error is the empty chain                    *)
(***************************************************************************)
EXTENDS Integers, Sequences, FiniteSets, TLC

VARIABLES
    cfg,        \* the *Config the caller holds
    last,       \* the last call made on cfg or on one of its directives
    authErr,    \* the *AuthenticationError the caller holds (NoError before one is created)
    incCalls,   \* number of IncrementRetryAttempt calls since authErr was created
    procs,      \* the *Processing of each pipeline run, by run
    hist,       \* for each run, the arguments of the calls made on its Processing
    query,      \* the last size accessor called on a Processing and what it returned
    curErr,     \* an error value built with the constructors of the errors package
    given,      \* the cause handed to the constructor that built curErr
    retry,      \* the caller's retry loop over authErr
    randStr     \* the last call of RandomString: its length argument and its result

procVars == <<procs, hist, query>>
errVars == <<curErr, given>>
vars == <<cfg, last, authErr, incCalls, procs, hist, query, curErr, given, retry, randStr>>

----------------------------------------------------------------------------
(* Bounds of the model *)

MaxFilters == 2
MaxMerges == 2
MaxAggregationConfigs == 2
MaxAggregations == 3
MaxRetriesInput == 4
MaxIncrements == 6

SeqsUpTo(S, n) == UNION {[1..k -> S] : k \in 0..n}

----------------------------------------------------------------------------
(* Go errors *)

Nil == <<>>

\* fmt.Errorf with no %w verb returns errors.New(text)
ErrorfPlain(text) == <<[type |-> "*errors.errorString", msg |-> text, field |-> ""]>>

\* fmt.Errorf("<prefix>: %w", err): a *fmt.wrapError whose Unwrap is err
ErrorfWrap(prefix, err) ==
    <<[type |-> "*fmt.wrapError", msg |-> prefix \o ": " \o err[1].msg, field |-> ""]>> \o err

\* a type assertion on the error itself, which does not look at its causes
ErrorsAsDirect(err, type) ==
    IF err # <<>> /\ err[1].type = type
    THEN [ok |-> TRUE, target |-> err[1]]
    ELSE [ok |-> FALSE, target |-> <<>>]

\* errors.As(err, &target) for a target of the given pointer type: the first
\* error of the chain that has this type, or none
ErrorsAs(err, type) ==
    IF \E i \in 1..Len(err) : err[i].type = type
    THEN LET i == CHOOSE k \in 1..Len(err) :
                      /\ err[k].type = type
                      /\ \A j \in 1..(k - 1) : err[j].type # type
         IN  [ok |-> TRUE, target |-> err[i]]
    ELSE [ok |-> FALSE, target |-> Nil]

IsConfigurationError(err) == ErrorsAs(err, "*errors.ConfigurationError").ok

----------------------------------------------------------------------------
(* utils.RandomString *)

HexDigits == <<"0", "1", "2", "3", "4", "5", "6", "7",
               "8", "9", "a", "b", "c", "d", "e", "f">>

\* hex.EncodeToString: two lower-case hexadecimal digits per byte
RECURSIVE HexEncodeToString(_)
HexEncodeToString(bytes) ==
    IF bytes = <<>> THEN ""
    ELSE HexDigits[(Head(bytes) \div 16) + 1] \o HexDigits[(Head(bytes) % 16) + 1]
            \o HexEncodeToString(Tail(bytes))

\* The outcomes of rand.Read on a buffer of the given length that the model
\* explores: crypto/rand may return any bytes.
RandRead(length) ==
    {[i \in 1..length |-> 0], [i \in 1..length |-> 255],
     [i \in 1..length |-> (i * 37 + 11) % 256]}

RandomString(resultBytes) == HexEncodeToString(resultBytes)

NameRandomLength == 10

----------------------------------------------------------------------------
(* FilterConfig.Validate *)

validateOperators == {"eq", "neq", "gt", "gte", "lt", "lte"}
validateLogicalOperators == {"and", "or"}

\* FilterConfig.Validate without the check of logicalOperator
FilterConfigValidateNoLogical(fc) ==
    IF fc.Column = "" THEN ErrorfPlain("column is required")
    ELSE IF fc.Value = "" THEN ErrorfPlain("value is required")
    ELSE IF fc.Operator \notin validateOperators
    THEN ErrorfPlain("invalid operator '" \o fc.Operator
                     \o "', operator must be one of [eq neq gt gte lt lte]")
    ELSE Nil

FilterConfigValidate(fc) ==
    IF fc.Column = "" THEN ErrorfPlain("column is required")
    ELSE IF fc.Value = "" THEN ErrorfPlain("value is required")
    ELSE IF fc.Operator \notin validateOperators
    THEN ErrorfPlain("invalid operator '" \o fc.Operator
                     \o "', operator must be one of [eq neq gt gte lt lte]")
    ELSE IF fc.LogicalOperator \notin validateLogicalOperators
    THEN ErrorfPlain("invalid logical operator '" \o fc.LogicalOperator
                     \o "', operator must be one of [and or]")
    ELSE Nil

----------------------------------------------------------------------------
(* MergeConfig.Validate: returns the directive as the call leaves it and    *)
(* the error                                                                *)

validateStrategies == {"concat", "sum", "first", "second"}

\* MergeConfig.Validate that checks the strategy before it fills the defaults
MergeConfigValidateCheckFirst(m) ==
    IF m.FirstColumn = "" THEN [m |-> m, err |-> ErrorfPlain("firstColumn is required")]
    ELSE IF m.SecondColumn = ""
    THEN [m |-> m, err |-> ErrorfPlain("secondColumn is required")]
    ELSE IF m.Strategy \notin validateStrategies
    THEN [m |-> m,
          err |-> ErrorfPlain("invalid strategy '" \o m.Strategy
                     \o "', strategy must be one of [concat sum first second]")]
    ELSE [m |-> IF m.ResultColumnName = ""
                THEN [m EXCEPT !.ResultColumnName = m.FirstColumn \o "_" \o m.SecondColumn]
                ELSE m,
          err |-> Nil]

MergeConfigValidate(m) ==
    IF m.FirstColumn = "" THEN [m |-> m, err |-> ErrorfPlain("firstColumn is required")]
    ELSE IF m.SecondColumn = ""
    THEN [m |-> m, err |-> ErrorfPlain("secondColumn is required")]
    ELSE LET m1 == IF m.Strategy = "" THEN [m EXCEPT !.Strategy = "concat"] ELSE m
             m2 == IF m1.ResultColumnName = ""
                   THEN [m1 EXCEPT !.ResultColumnName =
                                       m1.FirstColumn \o "_" \o m1.SecondColumn]
                   ELSE m1
         IN  IF m2.Strategy \notin validateStrategies
             THEN [m |-> m2,
                   err |-> ErrorfPlain("invalid strategy '" \o m2.Strategy
                              \o "', strategy must be one of [concat sum first second]")]
             ELSE [m |-> m2, err |-> Nil]

----------------------------------------------------------------------------
(* Aggregation.Validate: returns the aggregation as the call leaves it and  *)
(* the error                                                                *)

validateAggregateMethods == {"sum", "avg", "min", "max", "count", "median"}

AggregationValidate(a) ==
    IF a.Column = "" THEN [a |-> a, err |-> ErrorfPlain("column is required")]
    ELSE IF a.AggregateMethod = ""
    THEN [a |-> a, err |-> ErrorfPlain("aggregateMethod is required")]
    ELSE LET a1 == IF a.ResultName = ""
                   THEN [a EXCEPT !.ResultName = a.Column \o "_" \o a.AggregateMethod]
                   ELSE a
         IN  IF a1.AggregateMethod \notin validateAggregateMethods
             THEN [a |-> a1,
                   err |-> ErrorfPlain("invalid aggregateMethod '" \o a1.AggregateMethod
                     \o "', aggregateMethod must be one of [sum avg min max count median]")]
             ELSE [a |-> a1, err |-> Nil]

----------------------------------------------------------------------------
(* AggregationConfig.Validate *)

\* the loop without its early return: the error of the last invalid element
RECURSIVE AggregationsLoopLastError(_, _)
AggregationsLoopLastError(aggregations, i) ==
    IF i > Len(aggregations) THEN [n |-> Len(aggregations), err |-> Nil]
    ELSE LET err  == AggregationValidate(aggregations[i]).err
             rest == AggregationsLoopLastError(aggregations, i + 1)
         IN  IF rest.err # Nil THEN rest
             ELSE IF err # Nil
             THEN [n |-> i,
                   err |-> ErrorfWrap("aggregation[" \o ToString(i - 1) \o "]", err)]
             ELSE rest

\* for i, aggregation := range ac.Aggregations: runs Aggregation.Validate on
\* each element from index i on and stops at the first error. n is the number
\* of iterations that ran.
RECURSIVE AggregationsLoop(_, _)
AggregationsLoop(aggregations, i) ==
    IF i > Len(aggregations) THEN [n |-> Len(aggregations), err |-> Nil]
    ELSE LET err == AggregationValidate(aggregations[i]).err
         IN  IF err # Nil
             THEN [n |-> i,
                   err |-> ErrorfWrap("aggregation[" \o ToString(i - 1) \o "]", err)]
             ELSE AggregationsLoop(aggregations, i + 1)

\* ac.Aggregations after n iterations of the range loop: the loop variable
\* `aggregation` is a copy of the element, Aggregation.Validate assigns to the
\* copy, and the elements of the slice keep their values.
AggregationsAfterRange(aggregations, n) == aggregations

AggregationConfigValidate(ac) ==
    IF Len(ac.GroupingColumns) = 0
    THEN [ac |-> ac, err |-> ErrorfPlain("groupingColumns cannot be empty")]
    ELSE IF Len(ac.Aggregations) = 0
    THEN [ac |-> ac, err |-> ErrorfPlain("aggregations cannot be empty")]
    ELSE LET r == AggregationsLoop(ac.Aggregations, 1)
         IN  [ac |-> [ac EXCEPT !.Aggregations = AggregationsAfterRange(@, r.n)],
              err |-> r.err]

----------------------------------------------------------------------------
(* Config.Validate *)

\* the name generated whether or not the caller gave one
FillNameAlways(c, resultBytes) ==
    [c EXCEPT !.Name = "UntitledConfig_" \o RandomString(resultBytes)]

\* if c.Name == "" { c.Name = "UntitledConfig_" + utils.RandomString(10) }
FillName(c, resultBytes) ==
    IF c.Name = ""
    THEN [c EXCEPT !.Name = "UntitledConfig_" \o RandomString(resultBytes)]
    ELSE c

\* the output format set whether or not the caller gave one
FillOutputFormatAlways(c) == [c EXCEPT !.OutputFormat = "csv"]

\* if c.OutputFormat == "" { c.OutputFormat = "csv" }
FillOutputFormat(c) ==
    IF c.OutputFormat = "" THEN [c EXCEPT !.OutputFormat = "csv"] ELSE c

\* the loop reporting one-based positions
RECURSIVE FiltersLoopOneBased(_, _)
FiltersLoopOneBased(filters, i) ==
    IF i > Len(filters) THEN [n |-> Len(filters), err |-> Nil]
    ELSE LET err == FilterConfigValidate(filters[i])
         IN  IF err # Nil
             THEN [n |-> i, err |-> ErrorfWrap("filter[" \o ToString(i) \o "]", err)]
             ELSE FiltersLoopOneBased(filters, i + 1)

\* for i, filter := range c.Filters
RECURSIVE FiltersLoop(_, _)
FiltersLoop(filters, i) ==
    IF i > Len(filters) THEN [n |-> Len(filters), err |-> Nil]
    ELSE LET err == FilterConfigValidate(filters[i])
         IN  IF err # Nil
             THEN [n |-> i, err |-> ErrorfWrap("filter[" \o ToString(i - 1) \o "]", err)]
             ELSE FiltersLoop(filters, i + 1)

\* for i, mergeColumn := range c.MergeColumns
RECURSIVE MergeColumnsLoop(_, _)
MergeColumnsLoop(mergeColumns, i) ==
    IF i > Len(mergeColumns) THEN [n |-> Len(mergeColumns), err |-> Nil]
    ELSE LET err == MergeConfigValidate(mergeColumns[i]).err
         IN  IF err # Nil
             THEN [n |-> i,
                   err |-> ErrorfWrap("mergeColumn[" \o ToString(i - 1) \o "]", err)]
             ELSE MergeColumnsLoop(mergeColumns, i + 1)

\* the loop validating the elements in place (&c.MergeColumns[i]): the first n
\* elements are as MergeConfig.Validate leaves them
MergeColumnsAfterRangeByIndex(mergeColumns, n) ==
    [i \in 1..Len(mergeColumns) |->
        IF i <= n THEN MergeConfigValidate(mergeColumns[i]).m ELSE mergeColumns[i]]

\* c.MergeColumns after n iterations of the range loop: `mergeColumn` is a copy
\* of the element, MergeConfig.Validate fills the defaults of the copy, and the
\* elements of the slice keep their values.
MergeColumnsAfterRange(mergeColumns, n) == mergeColumns

\* for i, aggregation := range c.Aggregations
RECURSIVE AggregationConfigsLoop(_, _)
AggregationConfigsLoop(aggregations, i) ==
    IF i > Len(aggregations) THEN [n |-> Len(aggregations), err |-> Nil]
    ELSE LET err == AggregationConfigValidate(aggregations[i]).err
         IN  IF err # Nil
             THEN [n |-> i,
                   err |-> ErrorfWrap("aggregation[" \o ToString(i - 1) \o "]", err)]
             ELSE AggregationConfigsLoop(aggregations, i + 1)

\* c.Aggregations after n iterations of the range loop: `aggregation` is a copy
\* of the AggregationConfig struct whose Aggregations slice shares its backing
\* array with the element, so only what AggregationConfig.Validate stores into
\* the elements of that slice reaches the configuration.
AggregationConfigsAfterRange(aggregations, n) ==
    [i \in 1..Len(aggregations) |->
        IF i <= n
        THEN [aggregations[i] EXCEPT !.Aggregations =
                 AggregationConfigValidate(aggregations[i]).ac.Aggregations]
        ELSE aggregations[i]]

\* Returns the configuration as the call leaves it and the returned error.
\* resultBytes is what rand.Read delivers should the name be generated.
ConfigValidate(c, resultBytes) ==
    LET c1 == FillName(c, resultBytes)
    IN  IF c1.Type = ""
        THEN [c |-> c1,
              err |-> ErrorfPlain("type is required, valid values are: csv, googlesheets")]
        ELSE IF c1.Source = ""
        THEN [c |-> c1, err |-> ErrorfPlain("source is required")]
        ELSE
        LET c2 == FillOutputFormat(c1)
            f  == FiltersLoop(c2.Filters, 1)
        IN  IF f.err # Nil THEN [c |-> c2, err |-> f.err]
            ELSE
            LET m  == MergeColumnsLoop(c2.MergeColumns, 1)
                c3 == [c2 EXCEPT !.MergeColumns = MergeColumnsAfterRange(@, m.n)]
            IN  IF m.err # Nil THEN [c |-> c3, err |-> m.err]
                ELSE
                LET a  == AggregationConfigsLoop(c3.Aggregations, 1)
                    c4 == [c3 EXCEPT !.Aggregations =
                                         AggregationConfigsAfterRange(@, a.n)]
                IN  [c |-> c4, err |-> a.err]

----------------------------------------------------------------------------
(* AuthenticationError *)

DefaultMaxRetries == 3

NewAuthenticationError(message, cause) ==
    [Message |-> message, Cause |-> cause, RetryAttempt |-> 0,
     MaxRetries |-> DefaultMaxRetries]

NewAuthenticationErrorWithMaxRetries(message, cause, maxRetries) ==
    [Message |-> message, Cause |-> cause, RetryAttempt |-> 0,
     MaxRetries |-> maxRetries]

\* an off-by-one comparison
IsRetryableInclusive(e) == e.RetryAttempt <= e.MaxRetries

IsRetryable(e) == e.RetryAttempt < e.MaxRetries

\* an increment that counts the attempt twice
IncrementRetryAttemptTwice(e) == [e EXCEPT !.RetryAttempt = @ + 2]

IncrementRetryAttempt(e) == [e EXCEPT !.RetryAttempt = @ + 1]

----------------------------------------------------------------------------
(* The configurations a caller builds before the first call *)

ZeroConfig ==
    [Name |-> "", Description |-> "", Creator |-> "", Type |-> "", Source |-> "",
     Filters |-> <<>>, MergeColumns |-> <<>>, Aggregations |-> <<>>,
     OutputFormat |-> ""]

BaseConfig ==
    [ZeroConfig EXCEPT !.Name = "monthly", !.Description = "monthly report",
                       !.Creator = "shima", !.Type = "csv", !.Source = "data.csv",
                       !.OutputFormat = "json"]

FilterDomain ==
    [Column : {"", "age"}, Value : {"", "30"},
     Operator : validateOperators \cup {"", "in"},
     LogicalOperator : validateLogicalOperators \cup {"", "xor"}]

MergeDomain ==
    [FirstColumn : {"", "a"}, SecondColumn : {"", "b"},
     Strategy : validateStrategies \cup {"", "avg"},
     DefaultValues : {<<>>}, ResultColumnName : {"", "ab"}]

AggregationDomain ==
    [Column : {"", "price"},
     AggregateMethod : validateAggregateMethods \cup {"", "mode"},
     ResultName : {"", "total"}]

GroupingDomain == {<<>>, <<"region">>}

fOK == [Column |-> "age", Value |-> "30", Operator |-> "gte", LogicalOperator |-> "and"]
fNoLogical == [fOK EXCEPT !.LogicalOperator = ""]
fBadOperator == [fOK EXCEPT !.Operator = "in"]
FilterSamples == {fOK, fNoLogical, fBadOperator}

mOK ==
    [FirstColumn |-> "a", SecondColumn |-> "b", Strategy |-> "sum",
     DefaultValues |-> <<"0", "0">>, ResultColumnName |-> "ab"]
mBlank == [mOK EXCEPT !.Strategy = "", !.DefaultValues = <<>>, !.ResultColumnName = ""]
mBadStrategy == [mBlank EXCEPT !.Strategy = "avg"]
MergeSamples == {mOK, mBlank, mBadStrategy}

aOK == [Column |-> "price", AggregateMethod |-> "sum", ResultName |-> "total"]
aBlankResult == [aOK EXCEPT !.AggregateMethod = "median", !.ResultName = ""]
aBadMethod == [aBlankResult EXCEPT !.AggregateMethod = "mode"]
aNoColumn == [aOK EXCEPT !.Column = ""]
AggregationSamples == {aOK, aBlankResult, aBadMethod, aNoColumn}

acOK == [GroupingColumns |-> <<"region">>, Aggregations |-> <<aBlankResult>>]
acNoGrouping == [GroupingColumns |-> <<>>, Aggregations |-> <<aOK>>]
acBadItem == [GroupingColumns |-> <<"region">>, Aggregations |-> <<aOK, aBadMethod>>]
AggregationConfigSamples == {acOK, acNoGrouping, acBadItem}

\* every combination of blank and filled top-level fields
TopInputs ==
    {[BaseConfig EXCEPT !.Name = n, !.Type = t, !.Source = s, !.OutputFormat = o,
                        !.Filters = f, !.MergeColumns = m, !.Aggregations = a] :
        n \in {"", "monthly"}, t \in {"", "csv"}, s \in {"", "data.csv"},
        o \in {"", "json"}, f \in {<<>>, <<fBadOperator>>}, m \in {<<>>, <<mBlank>>},
        a \in {<<>>, <<acOK>>}}

FilterInputs ==
    {[BaseConfig EXCEPT !.Filters = f] :
        f \in {<<x>> : x \in FilterDomain} \cup SeqsUpTo(FilterSamples, MaxFilters)}

MergeInputs ==
    {[BaseConfig EXCEPT !.MergeColumns = m] :
        m \in {<<x>> : x \in MergeDomain} \cup SeqsUpTo(MergeSamples, MaxMerges)}

AggregationInputs ==
    {[BaseConfig EXCEPT !.Aggregations = a] :
        a \in {<<[GroupingColumns |-> g, Aggregations |-> x]>> :
                  g \in GroupingDomain,
                  x \in {<<y>> : y \in AggregationDomain}
                           \cup SeqsUpTo(AggregationSamples, MaxAggregations)}
              \cup SeqsUpTo(AggregationConfigSamples, MaxAggregationConfigs)}

\* several lists at once, each entry valid or invalid
MixedInputs ==
    {[BaseConfig EXCEPT !.Filters = f, !.MergeColumns = m, !.Aggregations = a] :
        f \in SeqsUpTo({fOK, fBadOperator}, MaxFilters),
        m \in SeqsUpTo({mBlank, mBadStrategy}, MaxMerges),
        a \in SeqsUpTo({acOK, acBadItem}, MaxAggregationConfigs)}

ConfigInputs == TopInputs \cup FilterInputs \cup MergeInputs \cup AggregationInputs
                    \cup MixedInputs

Messages == {"token expired", "invalid credentials"}
Causes == {Nil, ErrorfPlain("oauth2: cannot fetch token"),
           ErrorfWrap("refresh", ErrorfPlain("connection refused"))}

----------------------------------------------------------------------------
(* The parts of the state a specification does not use *)

NoQuery == [run |-> 0, op |-> "none", panicked |-> FALSE, value |-> 0]

NoProcessing == procs = <<>> /\ hist = <<>> /\ query = NoQuery

NoErrorValue == curErr = Nil /\ given = Nil

NoRetry == [pc |-> "none", maxRetries |-> 0, stoppedAt |-> 0]

NoRetryLoop == retry = NoRetry

NoRandom == [called |-> FALSE, length |-> 0, result |-> ""]

NoRandomString == randStr = NoRandom

----------------------------------------------------------------------------
(* State machine of the configuration model *)

\* no call made yet on the configuration c
NoCall(c) ==
    [op |-> "none", i |-> 0, j |-> 0, pre |-> c, err |-> Nil, validated |-> FALSE]

\* the record of a call: the operation, the one-based positions of its receiver,
\* the configuration before it, the returned error, and whether the call
\* before it was a Config.Validate that succeeded
Call(op, i, j, err) ==
    [op |-> op, i |-> i, j |-> j, pre |-> cfg, err |-> err,
     validated |-> (last.op = "Config.Validate" /\ last.err = Nil)]

Init ==
    /\ cfg \in ConfigInputs
    /\ last = NoCall(cfg)
    /\ authErr = Nil
    /\ incCalls = 0
    /\ NoProcessing
    /\ NoErrorValue
    /\ NoRetryLoop
    /\ NoRandomString

\* c.Validate()
ConfigValidateCall ==
    \E resultBytes \in RandRead(NameRandomLength) :
        LET r == ConfigValidate(cfg, resultBytes)
        IN  /\ cfg' = r.c
            /\ last' = Call("Config.Validate", 0, 0, r.err)
            /\ UNCHANGED <<authErr, incCalls, procVars, errVars, retry, randStr>>

\* c.Filters[i].Validate()
FilterConfigValidateCall ==
    \E i \in 1..Len(cfg.Filters) :
        /\ last' = Call("FilterConfig.Validate", i, 0, FilterConfigValidate(cfg.Filters[i]))
        /\ UNCHANGED <<cfg, authErr, incCalls, procVars, errVars, retry, randStr>>

\* c.MergeColumns[i].Validate()
MergeConfigValidateCall ==
    \E i \in 1..Len(cfg.MergeColumns) :
        LET r == MergeConfigValidate(cfg.MergeColumns[i])
        IN  /\ cfg' = [cfg EXCEPT !.MergeColumns[i] = r.m]
            /\ last' = Call("MergeConfig.Validate", i, 0, r.err)
            /\ UNCHANGED <<authErr, incCalls, procVars, errVars, retry, randStr>>

\* c.Aggregations[i].Validate()
AggregationConfigValidateCall ==
    \E i \in 1..Len(cfg.Aggregations) :
        LET r == AggregationConfigValidate(cfg.Aggregations[i])
        IN  /\ cfg' = [cfg EXCEPT !.Aggregations[i] = r.ac]
            /\ last' = Call("AggregationConfig.Validate", i, 0, r.err)
            /\ UNCHANGED <<authErr, incCalls, procVars, errVars, retry, randStr>>

\* c.Aggregations[i].Aggregations[j].Validate()
AggregationValidateCall ==
    \E i \in 1..Len(cfg.Aggregations) :
        \E j \in 1..Len(cfg.Aggregations[i].Aggregations) :
            LET r == AggregationValidate(cfg.Aggregations[i].Aggregations[j])
            IN  /\ cfg' = [cfg EXCEPT !.Aggregations[i].Aggregations[j] = r.a]
                /\ last' = Call("Aggregation.Validate", i, j, r.err)
                /\ UNCHANGED <<authErr, incCalls, procVars, errVars, retry, randStr>>

\* a caller that validates whole configurations
Next == ConfigValidateCall

Spec == Init /\ [][Next]_vars

\* a caller that also validates single directives of its configuration
InitDirectives ==
    /\ cfg \in FilterInputs \cup MergeInputs \cup AggregationInputs
    /\ last = NoCall(cfg)
    /\ authErr = Nil
    /\ incCalls = 0
    /\ NoProcessing
    /\ NoErrorValue
    /\ NoRetryLoop
    /\ NoRandomString

NextDirectives ==
    \/ ConfigValidateCall
    \/ FilterConfigValidateCall
    \/ MergeConfigValidateCall
    \/ AggregationConfigValidateCall
    \/ AggregationValidateCall

SpecDirectives == InitDirectives /\ [][NextDirectives]_vars

----------------------------------------------------------------------------
(* State machine of one AuthenticationError and its caller *)

InitAuth ==
    /\ cfg = ZeroConfig
    /\ last = NoCall(ZeroConfig)
    /\ authErr = Nil
    /\ incCalls = 0
    /\ NoProcessing
    /\ NoErrorValue
    /\ NoRetryLoop
    /\ NoRandomString

NewAuthenticationErrorCall ==
    \E message \in Messages, cause \in Causes :
        /\ authErr' = <<NewAuthenticationError(message, cause)>>
        /\ incCalls' = 0
        /\ UNCHANGED <<cfg, last, procVars, errVars, retry, randStr>>

NewAuthenticationErrorWithMaxRetriesCall ==
    \E message \in Messages, cause \in Causes, maxRetries \in (-1)..MaxRetriesInput :
        /\ authErr' = <<NewAuthenticationErrorWithMaxRetries(message, cause, maxRetries)>>
        /\ incCalls' = 0
        /\ UNCHANGED <<cfg, last, procVars, errVars, retry, randStr>>

\* e.IncrementRetryAttempt(); the caller may call it whether or not e is retryable
IncrementRetryAttemptCall ==
    /\ authErr # Nil
    /\ incCalls < MaxIncrements
    /\ authErr' = <<IncrementRetryAttempt(authErr[1])>>
    /\ incCalls' = incCalls + 1
    /\ UNCHANGED <<cfg, last, procVars, errVars, retry, randStr>>

NextAuth ==
    \/ NewAuthenticationErrorCall
    \/ NewAuthenticationErrorWithMaxRetriesCall
    \/ IncrementRetryAttemptCall

SpecAuth == InitAuth /\ [][NextAuth]_vars

----------------------------------------------------------------------------
(* Properties of Config.Validate *)

MinOf(S) == CHOOSE x \in S : \A y \in S : x <= y

ValidateReturned == last.op = "Config.Validate"
ValidateSucceeded == ValidateReturned /\ last.err = Nil
ValidateFailed == ValidateReturned /\ last.err # Nil

\* the one-based positions of the entries of a list of configuration c that
\* their own Validate rejects
BadFilters(c) ==
    {i \in 1..Len(c.Filters) : FilterConfigValidate(c.Filters[i]) # Nil}
BadMergeColumns(c) ==
    {i \in 1..Len(c.MergeColumns) : MergeConfigValidate(c.MergeColumns[i]).err # Nil}
BadAggregations(c) ==
    {i \in 1..Len(c.Aggregations) : AggregationConfigValidate(c.Aggregations[i]).err # Nil}

GeneratedNames == {"UntitledConfig_" \o RandomString(b) : b \in RandRead(NameRandomLength)}

\* C1: after Config.Validate returns success, every entry of cfg.MergeColumns
\* has a strategy in {concat, sum, first, second} and a non-empty
\* resultColumnName (firstColumn_secondColumn when it was blank), and every
\* Aggregation of every entry of cfg.Aggregations has a non-empty resultName
\* (column_aggregateMethod when it was blank).
C1_NestedDefaultsFilled ==
    ValidateSucceeded =>
        /\ \A i \in 1..Len(cfg.MergeColumns) :
               LET p == last.pre.MergeColumns[i]
                   q == cfg.MergeColumns[i]
               IN  /\ q.Strategy \in {"concat", "sum", "first", "second"}
                   /\ q.ResultColumnName # ""
                   /\ p.ResultColumnName = ""
                         => q.ResultColumnName = p.FirstColumn \o "_" \o p.SecondColumn
        /\ \A i \in 1..Len(cfg.Aggregations) :
               \A j \in 1..Len(cfg.Aggregations[i].Aggregations) :
                   LET p == last.pre.Aggregations[i].Aggregations[j]
                       q == cfg.Aggregations[i].Aggregations[j]
                   IN  /\ q.ResultName # ""
                       /\ p.ResultName = ""
                             => q.ResultName = p.Column \o "_" \o p.AggregateMethod

\* C2: Config.Validate on a configuration whose source is blank and whose type
\* is not blank fails with a ConfigurationError whose field is "source".
C2_BlankSourceIsConfigurationError ==
    (ValidateReturned /\ last.pre.Source = "" /\ last.pre.Type # "") =>
        /\ last.err # Nil
        /\ IsConfigurationError(last.err)
        /\ ErrorsAs(last.err, "*errors.ConfigurationError").target.field = "source"

\* C3: Config.Validate checks type, source, filters[0..], mergeColumns[0..],
\* aggregations[0..] in this order and returns the error of the earliest
\* invalid item; for a list entry the error wraps the entry's own error under
\* the list name and the zero-based index of the entry.
C3_FirstInvalidItemInOrder ==
    ValidateReturned =>
        LET p  == last.pre
            bf == BadFilters(p)
            bm == BadMergeColumns(p)
            ba == BadAggregations(p)
        IN  IF p.Type = ""
            THEN last.err = ErrorfPlain("type is required, valid values are: csv, googlesheets")
            ELSE IF p.Source = "" THEN last.err = ErrorfPlain("source is required")
            ELSE IF bf # {}
            THEN last.err = ErrorfWrap("filter[" \o ToString(MinOf(bf) - 1) \o "]",
                                FilterConfigValidate(p.Filters[MinOf(bf)]))
            ELSE IF bm # {}
            THEN last.err = ErrorfWrap("mergeColumn[" \o ToString(MinOf(bm) - 1) \o "]",
                                MergeConfigValidate(p.MergeColumns[MinOf(bm)]).err)
            ELSE IF ba # {}
            THEN last.err = ErrorfWrap("aggregation[" \o ToString(MinOf(ba) - 1) \o "]",
                                AggregationConfigValidate(p.Aggregations[MinOf(ba)]).err)
            ELSE last.err = Nil

\* a configuration with two invalid filters, the first at index 1, and invalid
\* entries in the other two lists was rejected for filter[1]
C3_Witness ==
    /\ ValidateFailed
    /\ BadFilters(last.pre) = {2, 3} \/ BadFilters(last.pre) = {2}
    /\ BadMergeColumns(last.pre) # {}
    /\ BadAggregations(last.pre) # {}
    /\ last.err[1].msg =
          "filter[1]: invalid operator 'in', operator must be one of [eq neq gt gte lt lte]"

\* the invariant of a filter clause as the data model states it
FilterClauseValid(f) ==
    /\ f.Column # ""
    /\ f.Value # ""
    /\ f.Operator \in {"eq", "neq", "gt", "gte", "lt", "lte"}
    /\ f.LogicalOperator \in {"and", "or"}

\* C4: FilterConfig.Validate succeeds exactly when column and value are
\* non-empty, operator is one of {eq, neq, gt, gte, lt, lte} and
\* logicalOperator is one of {and, or}; Config.Validate applies this to every
\* clause, the last one included: it succeeds only if every clause is valid,
\* and rejects a configuration whose final clause has a blank or unknown
\* logicalOperator.
C4_FilterClauseChecked ==
    /\ last.op = "FilterConfig.Validate"
          => (last.err = Nil <=> FilterClauseValid(last.pre.Filters[last.i]))
    /\ ValidateSucceeded
          => \A i \in 1..Len(last.pre.Filters) : FilterClauseValid(last.pre.Filters[i])
    /\ (/\ ValidateReturned
        /\ last.pre.Type # "" /\ last.pre.Source # ""
        /\ Len(last.pre.Filters) > 0
        /\ last.pre.Filters[Len(last.pre.Filters)].LogicalOperator \notin {"and", "or"})
          => last.err # Nil

\* Config.Validate rejected a configuration whose filters are valid but for
\* the blank logicalOperator of the last one
C4_Witness ==
    /\ ValidateFailed
    /\ last.pre.Filters = <<fOK, fNoLogical>>
    /\ last.err[1].msg =
          "filter[1]: invalid logical operator '', operator must be one of [and or]"

\* C5: Config.Validate called on a configuration that the call before it
\* validated with success succeeds again and changes no field.
C5_ValidateIdempotent ==
    (ValidateReturned /\ last.validated) => (last.err = Nil /\ cfg = last.pre)

\* a second Config.Validate in a row has returned, on a configuration whose
\* name and output format the first one filled
C5_Witness ==
    /\ ValidateReturned
    /\ last.validated
    /\ last.pre.Name \in GeneratedNames
    /\ last.pre.OutputFormat = "csv"
    /\ Len(last.pre.MergeColumns) > 0
    /\ Len(last.pre.Aggregations) > 0

\* C6: MergeConfig.Validate on a directive with non-empty firstColumn and
\* secondColumn succeeds exactly when strategy is blank or one of {concat, sum,
\* first, second}; on success a blank strategy has become concat, a blank
\* resultColumnName has become firstColumn_secondColumn, and a strategy or
\* resultColumnName that was not blank is unchanged.
C6_MergeDefaults ==
    (/\ last.op = "MergeConfig.Validate"
     /\ last.pre.MergeColumns[last.i].FirstColumn # ""
     /\ last.pre.MergeColumns[last.i].SecondColumn # "") =>
        LET p == last.pre.MergeColumns[last.i]
            q == cfg.MergeColumns[last.i]
        IN  /\ last.err = Nil <=> p.Strategy \in {"", "concat", "sum", "first", "second"}
            /\ last.err = Nil =>
                  /\ q.Strategy = (IF p.Strategy = "" THEN "concat" ELSE p.Strategy)
                  /\ q.ResultColumnName =
                        (IF p.ResultColumnName = ""
                         THEN p.FirstColumn \o "_" \o p.SecondColumn
                         ELSE p.ResultColumnName)

\* the directive {firstColumn: a, secondColumn: b} was validated
C6_Witness ==
    /\ last.op = "MergeConfig.Validate"
    /\ last.err = Nil
    /\ last.pre.MergeColumns[last.i] = mBlank
    /\ cfg.MergeColumns[last.i].Strategy = "concat"
    /\ cfg.MergeColumns[last.i].ResultColumnName = "a_b"

\* the requirements on one aggregation as the data model states them
AggregationItemValid(a) ==
    /\ a.Column # ""
    /\ a.AggregateMethod \in {"sum", "avg", "min", "max", "count", "median"}

\* C7: AggregationConfig.Validate succeeds exactly when groupingColumns is
\* non-empty, aggregations is non-empty and every aggregation has a non-empty
\* column and an aggregateMethod in {sum, avg, min, max, count, median}; when
\* several aggregations are invalid the error is that of the lowest-indexed one.
C7_AggregationConfigChecked ==
    last.op = "AggregationConfig.Validate" =>
        LET p   == last.pre.Aggregations[last.i]
            bad == {j \in 1..Len(p.Aggregations) : ~AggregationItemValid(p.Aggregations[j])}
        IN  /\ last.err = Nil <=> (/\ Len(p.GroupingColumns) > 0
                                   /\ Len(p.Aggregations) > 0
                                   /\ bad = {})
            /\ (Len(p.GroupingColumns) > 0 /\ bad # {}) =>
                  last.err = ErrorfWrap("aggregation[" \o ToString(MinOf(bad) - 1) \o "]",
                                 AggregationValidate(p.Aggregations[MinOf(bad)]).err)

\* a directive whose aggregations 1 and 2 are both invalid was rejected for
\* aggregation[1]
C7_Witness ==
    /\ last.op = "AggregationConfig.Validate"
    /\ last.pre.Aggregations[last.i].Aggregations = <<aOK, aBadMethod, aNoColumn>>
    /\ last.err[1].msg = "aggregation[1]: invalid aggregateMethod 'mode', "
            \o "aggregateMethod must be one of [sum avg min max count median]"

\* C8: after every successful Config.Validate name is non-empty (a generated
\* identifier when it was blank, the caller's value otherwise) and
\* outputFormat is non-empty ("csv" when it was blank, the caller's value
\* otherwise).
C8_TopLevelDefaults ==
    ValidateSucceeded =>
        /\ cfg.Name # ""
        /\ cfg.OutputFormat # ""
        /\ IF last.pre.Name = "" THEN cfg.Name \in GeneratedNames
                                 ELSE cfg.Name = last.pre.Name
        /\ IF last.pre.OutputFormat = "" THEN cfg.OutputFormat = "csv"
                                         ELSE cfg.OutputFormat = last.pre.OutputFormat

\* both defaults were filled by a successful call
C8_Witness ==
    /\ ValidateSucceeded
    /\ last.pre.Name = ""
    /\ last.pre.OutputFormat = ""
    /\ cfg.OutputFormat = "csv"

\* the entries of a list from position i on are as they were before the call
SameFrom(after, before, i) ==
    /\ Len(after) = Len(before)
    /\ \A k \in i..Len(before) : after[k] = before[k]

\* C9: when Config.Validate fails, the failing list entry and every filter,
\* merge and aggregation entry checked after it are as they were before the
\* call, and a failure on blank type or source leaves outputFormat unchanged.
C9_NoNormalizationPastFailure ==
    ValidateFailed =>
        LET p  == last.pre
            bf == BadFilters(p)
            bm == BadMergeColumns(p)
            ba == BadAggregations(p)
        IN  IF p.Type = "" \/ p.Source = ""
            THEN /\ cfg.OutputFormat = p.OutputFormat
                 /\ cfg.Filters = p.Filters
                 /\ cfg.MergeColumns = p.MergeColumns
                 /\ cfg.Aggregations = p.Aggregations
            ELSE IF bf # {}
            THEN /\ SameFrom(cfg.Filters, p.Filters, MinOf(bf))
                 /\ cfg.MergeColumns = p.MergeColumns
                 /\ cfg.Aggregations = p.Aggregations
            ELSE IF bm # {}
            THEN /\ SameFrom(cfg.MergeColumns, p.MergeColumns, MinOf(bm))
                 /\ cfg.Aggregations = p.Aggregations
            ELSE /\ ba # {}
                 /\ SameFrom(cfg.Aggregations, p.Aggregations, MinOf(ba))

\* the call failed on a merge directive that has defaults to fill, after one
\* that passed
C9_Witness ==
    /\ ValidateFailed
    /\ BadFilters(last.pre) = {}
    /\ Len(last.pre.MergeColumns) >= 2
    /\ last.pre.MergeColumns[1] = mBlank
    /\ last.pre.MergeColumns[2] = mBadStrategy
    /\ last.err[1].msg = "mergeColumn[1]: invalid strategy 'avg', "
            \o "strategy must be one of [concat sum first second]"

----------------------------------------------------------------------------
(* Properties of AuthenticationError *)

\* C10: IsRetryable is true exactly when retryAttempt < maxRetries: an error
\* made by NewAuthenticationError has maxRetries 3 and retryAttempt 0, an
\* error with maxRetries 3 is retryable after 0, 1 and 2 calls of
\* IncrementRetryAttempt and not after 3 or more, and each
\* IncrementRetryAttempt raises retryAttempt by one and leaves maxRetries,
\* message and cause unchanged.
C10_RetryableWhileBelowMax ==
    /\ [](authErr # Nil =>
            /\ authErr[1].RetryAttempt = incCalls
            /\ IsRetryable(authErr[1]) <=> incCalls < authErr[1].MaxRetries
            /\ authErr[1].MaxRetries = 3 =>
                  (IsRetryable(authErr[1]) <=> incCalls \in {0, 1, 2}))
    /\ [][/\ NewAuthenticationErrorCall =>
                /\ authErr'[1].MaxRetries = 3
                /\ authErr'[1].RetryAttempt = 0
          /\ IncrementRetryAttemptCall =>
                /\ authErr'[1].RetryAttempt = authErr[1].RetryAttempt + 1
                /\ authErr'[1].MaxRetries = authErr[1].MaxRetries
                /\ authErr'[1].Message = authErr[1].Message
                /\ authErr'[1].Cause = authErr[1].Cause]_vars

\* an error with the default maxRetries has been incremented three times and
\* is no longer retryable
C10_Witness ==
    /\ authErr # Nil
    /\ authErr[1].MaxRetries = 3
    /\ authErr[1].Cause # Nil
    /\ incCalls = 3
    /\ ~IsRetryable(authErr[1])

----------------------------------------------------------------------------
(* Processing: the run record                                               *)
(*                                                                          *)
(* Data is a [][]int: isNil tells the nil slice from an empty one.          *)
(* time.Time and time.Duration are integers (ticks of the monotonic clock;  *)
(* the zero time.Time is 0). A float64 that the code computes as            *)
(* float64(x) / float64(y) * 100 is kept as the exact fraction x * 100 / y, *)
(* with x an unsigned 64-bit value.                                         *)

\* a uint64 value wraps * 2^64 + rest
U64(wraps, rest) == [wraps |-> wraps, rest |-> rest]

\* a - b in uint64 arithmetic, for a and b far below 2^64: the difference
\* wraps around when b > a
USub64(a, b) == IF a >= b THEN U64(0, a - b) ELSE U64(1, a - b)

\* float64(num) / float64(den) * 100
Percent(num, den) == [num |-> num, den |-> den]

ZeroPercent == Percent(U64(0, 0), 1)

NewProcessing(data, configName, initMemStats, now) ==
    [Data |-> data,
     Metadata |->
        [SourceTotalRows |-> Len(data.rows),
         FilteredTotalRows |-> 0,
         AppliedFilters |-> <<>>,
         PerformedAggregations |-> <<>>,
         PerformedMerges |-> <<>>,
         ProcessingTime |-> 0,
         StartTime |-> now,
         EndTime |-> 0,
         ConfigName |-> configName,
         DataSource |-> "",
         MemoryStats |->
            [PeakAllocBytes |-> initMemStats.Alloc,
             PeakSysBytes |-> initMemStats.Sys,
             TotalAllocBytes |-> initMemStats.TotalAlloc,
             FinalAllocBytes |-> 0,
             NumGC |-> initMemStats.NumGC,
             MemoryIncreasePercent |-> ZeroPercent],
         StepPerformance |-> <<>>]]

AddFilter(p, filterExp) ==
    [p EXCEPT !.Metadata.AppliedFilters = Append(@, filterExp)]

\* a log that puts the newest descriptor first
AddAggregationPrepend(p, aggregationMethod, targetColumn) ==
    [p EXCEPT !.Metadata.PerformedAggregations =
        <<aggregationMethod \o "(" \o targetColumn \o ")">> \o @]

\* fmt.Sprintf("%s(%s)", aggregationMethod, targetColumn)
AddAggregation(p, aggregationMethod, targetColumn) ==
    [p EXCEPT !.Metadata.PerformedAggregations =
                  Append(@, aggregationMethod \o "(" \o targetColumn \o ")")]

\* fmt.Sprintf("%s + %s (%s)", firstColumn, secondColumn, strategy)
AddMerge(p, firstColumn, secondColumn, strategy) ==
    [p EXCEPT !.Metadata.PerformedMerges =
                  Append(@, firstColumn \o " + " \o secondColumn \o " (" \o strategy \o ")")]

\* an update that keeps the source row count of NewProcessing
UpdateRowsFilteredOnly(p, originalRows, filteredRows) ==
    [p EXCEPT !.Metadata.FilteredTotalRows = filteredRows]

UpdateRows(p, originalRows, filteredRows) ==
    [p EXCEPT !.Metadata.SourceTotalRows = originalRows,
              !.Metadata.FilteredTotalRows = filteredRows]

SetDataSourceInfo(p, info) == [p EXCEPT !.Metadata.DataSource = info]

\* a peak that follows the final sample
RaisePeakToFinal(peak, final) == final

\* the peak updated only if the final value is higher
RaisePeak(peak, final) == IF final > peak THEN final ELSE peak

\* now is what time.Now() returns and memStats what runtime.ReadMemStats reads
CompleteProcess(p, now, memStats) ==
    LET peak == p.Metadata.MemoryStats.PeakAllocBytes
    IN  [p EXCEPT
            !.Metadata.EndTime = now,
            !.Metadata.ProcessingTime = now - p.Metadata.StartTime,
            !.Metadata.MemoryStats.FinalAllocBytes = memStats.Alloc,
            !.Metadata.MemoryStats.TotalAllocBytes = memStats.TotalAlloc,
            !.Metadata.MemoryStats.NumGC = memStats.NumGC,
            !.Metadata.MemoryStats.MemoryIncreasePercent =
                IF peak > 0 THEN Percent(USub64(memStats.Alloc, peak), peak) ELSE @,
            !.Metadata.MemoryStats.PeakAllocBytes = RaisePeak(@, memStats.Alloc),
            !.Metadata.MemoryStats.PeakSysBytes = RaisePeak(@, memStats.Sys)]

\* the size accessors: what the call returns, or that it panics
Returns(value) == [panicked |-> FALSE, value |-> value]
Panics == [panicked |-> TRUE, value |-> 0]

HasData(p) == Returns(Len(p.Data.rows) > 0)

GetRowCount(p) == IF p.Data.isNil THEN Returns(0) ELSE Returns(Len(p.Data.rows))

\* p.Data[0] on a slice without rows is an index out of range
GetColumnCount(p) ==
    IF p.Data.isNil THEN Returns(0)
    ELSE IF Len(p.Data.rows) = 0 THEN Panics
    ELSE Returns(Len(p.Data.rows[1]))

----------------------------------------------------------------------------
(* State machine of the pipeline runs and their Processing records *)

MaxOps == 3
MaxRunsOps == 3

NilData == [isNil |-> TRUE, rows |-> <<>>]
Rows(rows) == [isNil |-> FALSE, rows |-> rows]

DataInputs ==
    {NilData, Rows(<<>>), Rows(<< <<>> >>), Rows(<< <<1, 2>> >>),
     Rows(<< <<7>> >>), Rows(<< <<1, 2>>, <<3, 4>> >>), Rows(<< <<1, 2, 3>>, <<4>> >>)}

\* what runtime.ReadMemStats may read
MemStatsOf(alloc, sys) == [Alloc |-> alloc, Sys |-> sys, TotalAlloc |-> 6000, NumGC |-> 2]

MemSamples ==
    {MemStatsOf(0, 2000), MemStatsOf(400, 3000), MemStatsOf(1000, 2000), MemStatsOf(1000, 3000)}

\* what time.Now may return
Times == {100, 250}

FilterExps == {"age gte 30", "name eq bob"}
AggregationArgs == {<<"sum", "price">>, <<"median", "age">>}
MergeArgs == {<<"a", "b", "concat">>, <<"x", "y", "sum">>}
RowsArgs == {<<5, 3>>, <<2, 0>>}
DataSourceInfos == {"csv:data.csv"}

\* the arguments of NewProcessing and what the runtime delivers to it
NewInputs ==
    [data : DataInputs, configName : {"monthly"}, memStats : MemSamples, now : {100}]

\* the inputs of runs that execute side by side
RunsInputs ==
    {[data |-> Rows(<< <<1, 2>> >>), configName |-> "monthly",
      memStats |-> MemStatsOf(400, 3000),
      now |-> 100],
     [data |-> NilData, configName |-> "weekly",
      memStats |-> MemStatsOf(1000, 2000),
      now |-> 100]}

\* nothing was called yet on the Processing made from input in
NoCalls(in) ==
    [new |-> in, filters |-> <<>>, aggregations |-> <<>>, merges |-> <<>>,
     updates |-> 0, rows |-> <<0, 0>>, infos |-> <<>>, samples |-> <<>>, ops |-> 0]

Runs == DOMAIN procs

RECURSIVE OpsUpTo(_)
OpsUpTo(r) == IF r = 0 THEN 0 ELSE hist[r].ops + OpsUpTo(r - 1)

\* the number of calls made so far on all runs
TotalOps == OpsUpTo(Len(hist))

OpsBound == IF Len(procs) = 1 THEN MaxOps ELSE MaxRunsOps

\* one record shared by all runs
StoreShared(r, p) == [q \in DOMAIN procs |-> p]

\* the i-th call stores its result in the Processing of run r
Store(r, p) == [procs EXCEPT ![r] = p]

InitProcessingOf(ins) ==
    /\ procs = [r \in DOMAIN ins |->
                   NewProcessing(ins[r].data, ins[r].configName, ins[r].memStats, ins[r].now)]
    /\ hist = [r \in DOMAIN ins |-> NoCalls(ins[r])]
    /\ query = NoQuery
    /\ cfg = ZeroConfig
    /\ last = NoCall(ZeroConfig)
    /\ authErr = Nil
    /\ incCalls = 0
    /\ NoErrorValue
    /\ NoRetryLoop
    /\ NoRandomString

OtherVars == <<cfg, last, authErr, incCalls, curErr, given, retry, randStr>>

AddFilterCall ==
    \E r \in Runs, filterExp \in FilterExps :
        /\ TotalOps < OpsBound
        /\ procs' = Store(r, AddFilter(procs[r], filterExp))
        /\ hist' = [hist EXCEPT ![r].filters = Append(@, filterExp), ![r].ops = @ + 1]
        /\ UNCHANGED <<query, OtherVars>>

AddAggregationCall ==
    \E r \in Runs, args \in AggregationArgs :
        /\ TotalOps < OpsBound
        /\ procs' = Store(r, AddAggregation(procs[r], args[1], args[2]))
        /\ hist' = [hist EXCEPT ![r].aggregations = Append(@, args), ![r].ops = @ + 1]
        /\ UNCHANGED <<query, OtherVars>>

AddMergeCall ==
    \E r \in Runs, args \in MergeArgs :
        /\ TotalOps < OpsBound
        /\ procs' = Store(r, AddMerge(procs[r], args[1], args[2], args[3]))
        /\ hist' = [hist EXCEPT ![r].merges = Append(@, args), ![r].ops = @ + 1]
        /\ UNCHANGED <<query, OtherVars>>

UpdateRowsCall ==
    \E r \in Runs, args \in RowsArgs :
        /\ TotalOps < OpsBound
        /\ procs' = Store(r, UpdateRows(procs[r], args[1], args[2]))
        /\ hist' = [hist EXCEPT ![r].updates = @ + 1, ![r].rows = args, ![r].ops = @ + 1]
        /\ UNCHANGED <<query, OtherVars>>

SetDataSourceInfoCall ==
    \E r \in Runs, info \in DataSourceInfos :
        /\ TotalOps < OpsBound
        /\ procs' = Store(r, SetDataSourceInfo(procs[r], info))
        /\ hist' = [hist EXCEPT ![r].infos = Append(@, info), ![r].ops = @ + 1]
        /\ UNCHANGED <<query, OtherVars>>

\* the clock does not run backwards between two readings for one record
CompleteProcessCall ==
    \E r \in Runs, memStats \in MemSamples, now \in Times :
        /\ TotalOps < OpsBound
        /\ now >= procs[r].Metadata.StartTime
        /\ now >= procs[r].Metadata.EndTime
        /\ procs' = Store(r, CompleteProcess(procs[r], now, memStats))
        /\ hist' = [hist EXCEPT ![r].samples = Append(@, [memStats |-> memStats, now |-> now]),
                                 ![r].ops = @ + 1]
        /\ UNCHANGED <<query, OtherVars>>

InitProcessing == \E in \in NewInputs : InitProcessingOf(<<in>>)

NextProcessing ==
    \/ AddFilterCall
    \/ AddAggregationCall
    \/ AddMergeCall
    \/ UpdateRowsCall
    \/ SetDataSourceInfoCall
    \/ CompleteProcessCall

\* one pipeline run
SpecProcessing == InitProcessing /\ [][NextProcessing]_vars

InitRuns == \E in1 \in RunsInputs, in2 \in RunsInputs : InitProcessingOf(<<in1, in2>>)

\* two pipeline runs, their calls interleaved in every way
SpecRuns == InitRuns /\ [][NextProcessing]_vars

\* p.HasData()
HasDataCall ==
    \E r \in Runs :
        /\ query' = [run |-> r, op |-> "HasData"] @@ HasData(procs[r])
        /\ UNCHANGED <<procs, hist, OtherVars>>

\* p.GetRowCount()
GetRowCountCall ==
    \E r \in Runs :
        /\ query' = [run |-> r, op |-> "GetRowCount"] @@ GetRowCount(procs[r])
        /\ UNCHANGED <<procs, hist, OtherVars>>

\* p.GetColumnCount()
GetColumnCountCall ==
    \E r \in Runs :
        /\ query' = [run |-> r, op |-> "GetColumnCount"] @@ GetColumnCount(procs[r])
        /\ UNCHANGED <<procs, hist, OtherVars>>

NextAccessors ==
    \/ HasDataCall
    \/ GetRowCountCall
    \/ GetColumnCountCall

\* a caller that reads the sizes of a new Processing
SpecAccessors == InitProcessing /\ [][NextAccessors]_vars

----------------------------------------------------------------------------
(* Properties of the Processing record *)

MemoryStatsOf(r) == procs[r].Metadata.MemoryStats

\* CompleteProcess was called on the record of run r
Completed(r) == hist[r].samples # <<>>

\* the signed quotient n / d * 100
SignedPercent(n, d) == Percent(U64(0, n), d)

\* C11: CompleteProcess sets the memory-growth percentage to
\* (final - initialPeak) / initialPeak * 100 for every initial peak
\* allocation > 0 and every final allocation, a final allocation below the
\* initial peak included (a negative value); with an initial peak of 0 the
\* percentage stays 0.
C11_MemoryIncreasePercent ==
    \A r \in Runs :
        Len(hist[r].samples) = 1 =>
            LET initialPeak == hist[r].new.memStats.Alloc
                final == hist[r].samples[1].memStats.Alloc
            IN  MemoryStatsOf(r).MemoryIncreasePercent =
                    IF initialPeak > 0
                    THEN SignedPercent(final - initialPeak, initialPeak)
                    ELSE ZeroPercent

FilterDescriptors(h) == h.filters

AggregationDescriptors(h) ==
    [i \in 1..Len(h.aggregations) |->
        h.aggregations[i][1] \o "(" \o h.aggregations[i][2] \o ")"]

MergeDescriptors(h) ==
    [i \in 1..Len(h.merges) |->
        h.merges[i][1] \o " + " \o h.merges[i][2] \o " (" \o h.merges[i][3] \o ")"]

IsPrefix(s, t) == Len(s) <= Len(t) /\ SubSeq(t, 1, Len(s)) = s

Logs(p) ==
    <<p.Metadata.AppliedFilters, p.Metadata.PerformedAggregations, p.Metadata.PerformedMerges>>

RowCounts(p) == <<p.Metadata.SourceTotalRows, p.Metadata.FilteredTotalRows>>

\* the number of Add calls made on a record for each of the three logs
AddCalls(h) == <<Len(h.filters), Len(h.aggregations), Len(h.merges)>>

\* C12: the three operation logs are append-only: after any sequence of
\* calls each log equals the descriptors of its own Add calls in call order,
\* every earlier log is a prefix of every later one, and each Add call
\* lengthens only its own log by one and leaves the other two logs and the
\* row counts unchanged.
C12_LogsAppendOnly ==
    /\ [](\A r \in Runs :
            Logs(procs[r]) =
                <<FilterDescriptors(hist[r]), AggregationDescriptors(hist[r]),
                  MergeDescriptors(hist[r])>>)
    /\ [][\A r \in Runs :
            /\ \A k \in 1..3 : IsPrefix(Logs(procs[r])[k], Logs(procs'[r])[k])
            /\ \A k \in 1..3 :
                AddCalls(hist'[r])[k] = AddCalls(hist[r])[k] + 1 =>
                    /\ Len(Logs(procs'[r])[k]) = Len(Logs(procs[r])[k]) + 1
                    /\ \A j \in 1..3 \ {k} : Logs(procs'[r])[j] = Logs(procs[r])[j]
                    /\ RowCounts(procs'[r]) = RowCounts(procs[r])]_vars

\* two different aggregations were logged, after a filter, a merge or an
\* update of the rows
C12_Witness ==
    \E r \in Runs :
        /\ Len(hist[r].aggregations) = 2
        /\ hist[r].aggregations[1] # hist[r].aggregations[2]
        /\ hist[r].ops = 3
        /\ Len(procs[r].Metadata.PerformedAggregations) = 2

\* C13: once CompleteProcess has been called on a Processing the record is
\* read-only: no later call of AddFilter, AddMerge, AddAggregation,
\* UpdateRows, SetDataSourceInfo or CompleteProcess changes any metadata
\* field.
C13_ReadOnlyAfterComplete ==
    [][\A r \in Runs : Completed(r) => procs'[r].Metadata = procs[r].Metadata]_vars

RECURSIVE CompleteAll(_, _)
CompleteAll(p, samples) ==
    IF samples = <<>> THEN p
    ELSE CompleteAll(CompleteProcess(p, Head(samples).now, Head(samples).memStats),
                     Tail(samples))

\* the metadata the calls recorded in h produce on a record of their own;
\* calls that write different fields are applied kind by kind
Alone(h) ==
    LET new == NewProcessing(h.new.data, h.new.configName, h.new.memStats, h.new.now)
        withLogs == [new EXCEPT !.Metadata.AppliedFilters = FilterDescriptors(h),
                                !.Metadata.PerformedAggregations = AggregationDescriptors(h),
                                !.Metadata.PerformedMerges = MergeDescriptors(h)]
        withRows == IF h.updates = 0 THEN withLogs
                    ELSE UpdateRows(withLogs, h.rows[1], h.rows[2])
        withInfo == IF h.infos = <<>> THEN withRows
                    ELSE SetDataSourceInfo(withRows, h.infos[Len(h.infos)])
    IN  CompleteAll(withInfo, h.samples).Metadata

\* C14: two Processing records made by separate NewProcessing calls share
\* no state: under every interleaving of the calls of the two runs the
\* metadata of each record is what the calls of its own run alone produce
\* in their order.
C14_RunsShareNoState ==
    Len(procs) = 2 => \A r \in Runs : procs[r].Metadata = Alone(hist[r])

\* both runs have made calls, and their records differ
C14_Witness ==
    /\ Len(procs) = 2
    /\ hist[1].ops > 0
    /\ hist[2].ops > 0
    /\ hist[1].filters # hist[2].filters
    /\ procs[1].Metadata.AppliedFilters # procs[2].Metadata.AppliedFilters

\* the fields of the metadata other than the two row counts
OtherFields(p) == DOMAIN p.Metadata \ {"SourceTotalRows", "FilteredTotalRows"}

\* C16: the row counts follow last-write-wins: after NewProcessing(data,
\* name) sourceTotalRows is the number of rows of data and filteredTotalRows
\* is 0, after any sequence of calls both equal the arguments of the most
\* recent UpdateRows call (the initial values when there was none), and
\* UpdateRows changes nothing else.
C16_RowsLastWriteWins ==
    /\ [](\A r \in Runs :
            RowCounts(procs[r]) =
                IF hist[r].updates = 0 THEN <<Len(hist[r].new.data.rows), 0>>
                ELSE hist[r].rows)
    /\ [][\A r \in Runs :
            hist'[r].updates = hist[r].updates + 1 =>
                /\ procs'[r].Data = procs[r].Data
                /\ \A f \in OtherFields(procs[r]) :
                    procs'[r].Metadata[f] = procs[r].Metadata[f]]_vars

\* UpdateRows was called twice with different arguments on a record that
\* was made from two rows
C16_Witness ==
    \E r \in Runs :
        /\ hist[r].updates = 2
        /\ Len(hist[r].new.data.rows) = 2
        /\ RowCounts(procs[r]) = <<5, 3>>
        /\ hist[r].ops = 3

\* C18: the recorded peaks never decrease and dominate the final sample:
\* every CompleteProcess call leaves peakAllocBytes and peakSysBytes at least
\* as large as before the call, and after CompleteProcess peakAllocBytes >=
\* finalAllocBytes.
C18_PeaksMonotone ==
    /\ [](\A r \in Runs :
            Completed(r) => MemoryStatsOf(r).PeakAllocBytes >= MemoryStatsOf(r).FinalAllocBytes)
    /\ [][\A r \in Runs :
            Len(hist'[r].samples) = Len(hist[r].samples) + 1 =>
                /\ procs'[r].Metadata.MemoryStats.PeakAllocBytes >= MemoryStatsOf(r).PeakAllocBytes
                /\ procs'[r].Metadata.MemoryStats.PeakSysBytes >= MemoryStatsOf(r).PeakSysBytes]_vars

\* a record was completed with a final sample above the peak and then with
\* one below it
C18_Witness ==
    \E r \in Runs :
        /\ Len(hist[r].samples) = 2
        /\ hist[r].new.memStats.Alloc < hist[r].samples[1].memStats.Alloc
        /\ hist[r].samples[2].memStats.Alloc < hist[r].samples[1].memStats.Alloc
        /\ hist[r].samples[2].memStats.Sys < hist[r].samples[1].memStats.Sys
        /\ MemoryStatsOf(r).PeakAllocBytes = hist[r].samples[1].memStats.Alloc
        /\ MemoryStatsOf(r).FinalAllocBytes = hist[r].samples[2].memStats.Alloc

\* C20: the size accessors are total and consistent for every data value
\* given to NewProcessing, absent data and present data with zero rows
\* included: GetRowCount and GetColumnCount return a result without failing,
\* HasData is true exactly when GetRowCount > 0, and GetColumnCount is 0
\* whenever there are no rows.
C20_AccessorsTotal ==
    LET rows == Len(procs[query.run].Data.rows) IN
    /\ query.op \in {"GetRowCount", "GetColumnCount"} => ~query.panicked
    /\ query.op = "GetRowCount" => query.value = rows
    /\ query.op = "HasData" => (query.value <=> rows > 0)
    /\ query.op = "GetColumnCount" /\ rows = 0 => query.value = 0

----------------------------------------------------------------------------
(* Properties of the directive-level Validate calls that fail *)

\* C17: a directive-level Validate that returns an error leaves the directive
\* unchanged: when MergeConfig.Validate fails, strategy and resultColumnName
\* keep their values from before the call, and when Aggregation.Validate
\* fails, resultName keeps its value from before the call.
C17_FailedValidateLeavesDirective ==
    /\ last.op = "MergeConfig.Validate" /\ last.err # Nil =>
          LET before == last.pre.MergeColumns[last.i]
              after == cfg.MergeColumns[last.i]
          IN  /\ after.Strategy = before.Strategy
              /\ after.ResultColumnName = before.ResultColumnName
    /\ last.op = "Aggregation.Validate" /\ last.err # Nil =>
          LET before == last.pre.Aggregations[last.i].Aggregations[last.j]
              after == cfg.Aggregations[last.i].Aggregations[last.j]
          IN  after.ResultName = before.ResultName

----------------------------------------------------------------------------
(* The three error kinds as error values *)

NewConfigurationError(field, message, cause) ==
    [Field |-> field, Message |-> message, Cause |-> cause]

NewDataProcessError(step, message, cause) ==
    [Step |-> step, Message |-> message, Cause |-> cause, Recoverable |-> FALSE,
     RecoveryAction |-> ""]

NewRecoverableDataProcessError(step, message, cause, recoveryAction) ==
    [Step |-> step, Message |-> message, Cause |-> cause, Recoverable |-> TRUE,
     RecoveryAction |-> recoveryAction]

\* e.Unwrap() of the three kinds
ConfigurationErrorUnwrap(e) == e.Cause
AuthenticationErrorUnwrap(e) == e.Cause
DataProcessErrorUnwrap(e) == e.Cause

\* e.Error() of the three kinds
ConfigurationErrorError(e) ==
    IF e.Field # ""
    THEN "configuration error in field '" \o e.Field \o "': " \o e.Message
    ELSE "configuration error: " \o e.Message

AuthenticationErrorError(e) == "authentication error: " \o e.Message

DataProcessErrorError(e) ==
    IF e.Step # ""
    THEN "data process error in step '" \o e.Step \o "': " \o e.Message
    ELSE "data process error: " \o e.Message

\* the error value that holds a pointer to e: its dynamic type and text, and
\* behind it the errors that Unwrap leads to
ConfigurationErrorValue(e) ==
    <<[type |-> "*errors.ConfigurationError", msg |-> ConfigurationErrorError(e),
       field |-> e.Field]>> \o ConfigurationErrorUnwrap(e)

AuthenticationErrorValue(e) ==
    <<[type |-> "*errors.AuthenticationError", msg |-> AuthenticationErrorError(e),
       field |-> ""]>> \o AuthenticationErrorUnwrap(e)

DataProcessErrorValue(e) ==
    <<[type |-> "*errors.DataProcessError", msg |-> DataProcessErrorError(e),
       field |-> ""]>> \o DataProcessErrorUnwrap(e)

IsAuthenticationError(err) == ErrorsAs(err, "*errors.AuthenticationError").ok

IsDataProcessError(err) == ErrorsAs(err, "*errors.DataProcessError").ok

----------------------------------------------------------------------------
(* State machine of a caller that builds and wraps errors *)

MaxChain == 3

\* no constructor of the three kinds made the current error
NoGiven(kinds) == [kind |-> "none", e |-> Nil, cause |-> Nil, kinds |-> kinds]

\* the constructor of a kind made e from cause
Given(kind, e, cause) ==
    [kind |-> kind, e |-> e, cause |-> cause,
     kinds |-> (IF cause = Nil THEN {} ELSE given.kinds) \cup {kind}]

\* the causes a caller has at hand: none, or the error it holds
CausesAtHand == {c \in {Nil, curErr} : Len(c) < MaxChain}

InitErrors ==
    /\ cfg = ZeroConfig
    /\ last = NoCall(ZeroConfig)
    /\ authErr = Nil
    /\ incCalls = 0
    /\ NoProcessing
    /\ curErr = Nil
    /\ given = NoGiven({})
    /\ NoRetryLoop
    /\ NoRandomString

NotErrorVars == <<cfg, last, authErr, incCalls, procVars, retry, randStr>>

\* errors.New(text) or fmt.Errorf(text)
ErrorsNewCall ==
    \E text \in {"connection refused", "unexpected EOF"} :
        /\ curErr' = ErrorfPlain(text)
        /\ given' = NoGiven({})
        /\ UNCHANGED NotErrorVars

\* fmt.Errorf("<prefix>: %w", err)
ErrorfWrapCall ==
    /\ curErr # Nil
    /\ Len(curErr) < MaxChain
    /\ curErr' = ErrorfWrap("load", curErr)
    /\ given' = NoGiven(given.kinds)
    /\ UNCHANGED NotErrorVars

NewConfigurationErrorCall ==
    \E field \in {"", "source"}, cause \in CausesAtHand :
        LET e == NewConfigurationError(field, "is required", cause)
        IN  /\ curErr' = ConfigurationErrorValue(e)
            /\ given' = Given("ConfigurationError", e, cause)
            /\ UNCHANGED NotErrorVars

NewAuthenticationErrorValueCall ==
    \E cause \in CausesAtHand :
        LET e == NewAuthenticationError("token expired", cause)
        IN  /\ curErr' = AuthenticationErrorValue(e)
            /\ given' = Given("AuthenticationError", e, cause)
            /\ UNCHANGED NotErrorVars

NewAuthenticationErrorWithMaxRetriesValueCall ==
    \E cause \in CausesAtHand, maxRetries \in {0, 5} :
        LET e == NewAuthenticationErrorWithMaxRetries("token expired", cause, maxRetries)
        IN  /\ curErr' = AuthenticationErrorValue(e)
            /\ given' = Given("AuthenticationError", e, cause)
            /\ UNCHANGED NotErrorVars

NewDataProcessErrorCall ==
    \E step \in {"", "filter"}, cause \in CausesAtHand :
        LET e == NewDataProcessError(step, "column not found", cause)
        IN  /\ curErr' = DataProcessErrorValue(e)
            /\ given' = Given("DataProcessError", e, cause)
            /\ UNCHANGED NotErrorVars

NewRecoverableDataProcessErrorCall ==
    \E step \in {"", "filter"}, cause \in CausesAtHand :
        LET e == NewRecoverableDataProcessError(step, "column not found", cause, "skip the row")
        IN  /\ curErr' = DataProcessErrorValue(e)
            /\ given' = Given("DataProcessError", e, cause)
            /\ UNCHANGED NotErrorVars

NextErrors ==
    \/ ErrorsNewCall
    \/ ErrorfWrapCall
    \/ NewConfigurationErrorCall
    \/ NewAuthenticationErrorValueCall
    \/ NewAuthenticationErrorWithMaxRetriesValueCall
    \/ NewDataProcessErrorCall
    \/ NewRecoverableDataProcessErrorCall

SpecErrors == InitErrors /\ [][NextErrors]_vars

\* C15: for each of the three error kinds Unwrap returns exactly the cause
\* given at construction (none when none was given), and
\* IsConfigurationError, IsAuthenticationError and IsDataProcessError are true
\* for an error exactly when an error of that kind is the error itself or
\* occurs somewhere in its chain of causes.
C15_UnwrapAndKindTests ==
    /\ given.kind = "ConfigurationError" => ConfigurationErrorUnwrap(given.e) = given.cause
    /\ given.kind = "AuthenticationError" => AuthenticationErrorUnwrap(given.e) = given.cause
    /\ given.kind = "DataProcessError" => DataProcessErrorUnwrap(given.e) = given.cause
    /\ IsConfigurationError(curErr) <=> "ConfigurationError" \in given.kinds
    /\ IsAuthenticationError(curErr) <=> "AuthenticationError" \in given.kinds
    /\ IsDataProcessError(curErr) <=> "DataProcessError" \in given.kinds

\* a DataProcessError was made from a cause that wraps an
\* AuthenticationError, and the chain holds no ConfigurationError
C15_Witness ==
    /\ given.kind = "DataProcessError"
    /\ given.cause # Nil
    /\ given.cause[1].type = "*fmt.wrapError"
    /\ DataProcessErrorUnwrap(given.e) = given.cause
    /\ IsAuthenticationError(curErr)
    /\ curErr[1].type # "*errors.AuthenticationError"
    /\ ~IsConfigurationError(curErr)

----------------------------------------------------------------------------
(* State machine of a caller that retries while the error is retryable *)

InitRetry ==
    /\ cfg = ZeroConfig
    /\ last = NoCall(ZeroConfig)
    /\ authErr = Nil
    /\ incCalls = 0
    /\ NoProcessing
    /\ NoErrorValue
    /\ retry = NoRetry
    /\ NoRandomString

NotRetryVars == <<cfg, last, procVars, errVars, randStr>>

\* e := NewAuthenticationErrorWithMaxRetries(message, cause, m)
RetryStart ==
    \E message \in Messages, cause \in Causes, m \in (-1)..MaxRetriesInput :
        /\ retry.pc = "none"
        /\ authErr' = <<NewAuthenticationErrorWithMaxRetries(message, cause, m)>>
        /\ incCalls' = 0
        /\ retry' = [pc |-> "loop", maxRetries |-> m, stoppedAt |-> 0]
        /\ UNCHANGED NotRetryVars

\* for e.IsRetryable() { e.IncrementRetryAttempt() }: one round of the loop
RetryStep ==
    /\ retry.pc = "loop"
    /\ IsRetryable(authErr[1])
    /\ authErr' = <<IncrementRetryAttempt(authErr[1])>>
    /\ incCalls' = incCalls + 1
    /\ UNCHANGED <<retry, NotRetryVars>>

\* the loop condition is false: the loop is left
RetryStop ==
    /\ retry.pc = "loop"
    /\ ~IsRetryable(authErr[1])
    /\ retry' = [retry EXCEPT !.pc = "stopped", !.stoppedAt = incCalls]
    /\ UNCHANGED <<authErr, incCalls, NotRetryVars>>

\* e.IncrementRetryAttempt() after the loop
RetryFurtherIncrement ==
    /\ retry.pc = "stopped"
    /\ incCalls < MaxIncrements
    /\ authErr' = <<IncrementRetryAttempt(authErr[1])>>
    /\ incCalls' = incCalls + 1
    /\ UNCHANGED <<retry, NotRetryVars>>

NextRetry ==
    \/ RetryStart
    \/ RetryStep
    \/ RetryStop
    \/ RetryFurtherIncrement

\* the caller's loop keeps running until its condition is false
SpecRetry ==
    InitRetry /\ [][NextRetry]_vars /\ WF_vars(RetryStep) /\ WF_vars(RetryStop)

MaxOf(a, b) == IF a >= b THEN a ELSE b

\* C19: a retry loop over an AuthenticationError terminates: starting from
\* NewAuthenticationErrorWithMaxRetries with maxRetries = m, a caller that
\* calls IncrementRetryAttempt only while IsRetryable is true stops after
\* exactly max(m, 0) increments, and once IsRetryable has become false it
\* stays false after any number of further IncrementRetryAttempt calls.
C19_RetryLoopTerminates ==
    /\ (retry.pc = "loop") ~> (retry.pc = "stopped")
    /\ [](retry.pc = "stopped" =>
            /\ retry.stoppedAt = MaxOf(retry.maxRetries, 0)
            /\ ~IsRetryable(authErr[1]))

\* a loop over an error with maxRetries 4 was left after four increments, and
\* two more increments were made after it
C19_Witness ==
    /\ retry.pc = "stopped"
    /\ retry.maxRetries = 4
    /\ retry.stoppedAt = 4
    /\ incCalls = 6
    /\ ~IsRetryable(authErr[1])

----------------------------------------------------------------------------
(* State machine of a caller of utils.RandomString *)

MaxRandomLength == 3

\* the byte values that stand for what crypto/rand may deliver
ByteSamples == {0, 171, 255}

\* rand.Read on a buffer made by make([]byte, length): every filling of it
RandReadAny(length) == [1..length -> ByteSamples]

InitRandom ==
    /\ cfg \in {BaseConfig, [BaseConfig EXCEPT !.Name = ""]}
    /\ last = NoCall(cfg)
    /\ authErr = Nil
    /\ incCalls = 0
    /\ NoProcessing
    /\ NoErrorValue
    /\ NoRetryLoop
    /\ NoRandomString

\* utils.RandomString(length)
RandomStringCall ==
    \E length \in 0..MaxRandomLength :
        \E resultBytes \in RandReadAny(length) :
            /\ randStr' = [called |-> TRUE, length |-> length,
                           result |-> RandomString(resultBytes)]
            /\ UNCHANGED <<cfg, last, authErr, incCalls, procVars, errVars, retry>>

NextRandom ==
    \/ RandomStringCall
    \/ ConfigValidateCall

\* a caller that makes random strings and validates a configuration
SpecRandom == InitRandom /\ [][NextRandom]_vars

HexCharacters == {HexDigits[i] : i \in DOMAIN HexDigits}

\* the characters of string str from position from on are hexadecimal digits
HexFrom(str, from) == \A i \in from..Len(str) : SubSeq(str, i, i) \in HexCharacters

\* C21: RandomString(length) returns a hexadecimal string whose number of
\* characters equals the length argument, for every length >= 0; the name
\* that Config.Validate generates for a blank name is "UntitledConfig_"
\* followed by 10 hexadecimal characters.
C21_RandomStringLength ==
    /\ randStr.called =>
          /\ Len(randStr.result) = randStr.length
          /\ HexFrom(randStr.result, 1)
    /\ last.op = "Config.Validate" /\ last.pre.Name = "" =>
          /\ Len(cfg.Name) = Len("UntitledConfig_") + NameRandomLength
          /\ SubSeq(cfg.Name, 1, Len("UntitledConfig_")) = "UntitledConfig_"
          /\ HexFrom(cfg.Name, Len("UntitledConfig_") + 1)

====
